---------------------------- MODULE Spec2Model ----------------------------
(***************************************************************************)
(* A model of src/main.py: the sliding-window rate limiter, the API-key    *)
(* gate, the bounded history store and the route handlers.                 *)
(*                                                                         *)
(* Every request is handled by a worker of the server's thread pool; a     *)
(* worker's position in the code is pc[w] and its Python locals are the    *)
(* per-worker variables.  One action is one step that the interpreter      *)
(* performs without another thread being able to observe an intermediate   *)
(* state.  Time is counted in whole seconds.                               *)
(***************************************************************************)
EXTENDS Integers, Sequences, FiniteSets, TLC

(***************************************************************************)
(* Program constants.                                                      *)
(***************************************************************************)
API_KEY == "kingvon"
MAX_REQUESTS_PER_MINUTE == 60
\* timedelta(minutes=1), in seconds
Window == 60
\* save_data: the length above which the store is cut, and what is kept
StoreCap == 1000
StoreKeep == 500
\* get_crypto_prices asks the upstream for 10 coins
PageSize == 10

(***************************************************************************)
(* Bounds of the model.                                                    *)
(***************************************************************************)
\* requests a client may send in one burst (a run of requests in which no
\* request comes a minute or more after the previous one)
MaxBurst == 62
\* the same for the second client of the two-client specification
MaxOther == 2
\* requests of one burst where two workers interleave
MaxRace == 3
\* advances of the clock
MaxTicks == 1
\* successful price fetches of the sequential specification
MaxFetch == 2
\* sequential price fetches that fill the store before the workers compete
MaxGrown == 7
\* requests the two competing workers handle once the store is filled
MaxStoreReqs == 2
\* records in a list handed to get_data_statistics on its own
MaxData == 3
\* characters of a symbols query parameter
MaxText == 4
\* coins of an upstream page handed to the symbol filter
MaxCoins == 2
\* items of a news feed handed to scrape_crypto_news
MaxFeed == 2

Workers == {"w1", "w2"}
Clients == {"c1", "c2"}
\* the X-API-Key header: the secret, a near miss, and no header at all
NoHeader == "<None>"
Keys == {API_KEY, "Kingvon", NoHeader}
OpenRoutes == {"/", "/health"}
ProtectedRoutes == {"/crypto/prices", "/crypto/news", "/weather",
                    "/data/history", "/data/stats", "/config", "/data/clear"}
\* by how much the clock may advance in one step
TickSteps == {59, 60, 61}
\* the same where only gaps of a minute or more are of interest
GapSteps == {60, 61}
\* lines 78-82: the symbols filter leaves between 0 and 10 records of a page
FetchSizes == {0, 1, PageSize}
\* line 195: the limit query parameter of /data/history
HistoryLimits == {0, 2, 50}
StoreRoutes == {"/crypto/prices", "/data/history", "/data/stats", "/config",
                "/data/clear"}

\* no clock reading: a value that datetime.now() never takes
NoTime == 0 - 1
\* the mark of a client whose requests were not all more than a minute apart
NotSpaced == 0 - 1
\* the mark of a latest response that was not a completed clear
NotCleared == 0 - 1
\* no function is called on its own / the call has not returned
NoCall == [fn |-> "none"]
\* threading.Lock(): held by a worker, or free
Free == "free"

VARIABLES
    now,                \* the wall clock, datetime.now()
    request_times,      \* dict: client address -> list of timestamps
    pc,                 \* per worker: where it is in the code
    client,             \* per worker: request.client.host
    x_api_key,          \* per worker: the X-API-Key header
    route,              \* per worker: the route requested
    current_time,       \* per worker: rate_limit_check's current_time
    filtered,           \* per worker: the list built by the comprehension
    status,             \* per worker: HTTP status of the last response
    body,               \* per worker: what the last response reports
    crypto_data_store,  \* the history store, a list of price records
    data_lock,          \* the worker inside "with data_lock", or Free
    result,             \* per worker: get_crypto_prices' result
    existing_data,      \* per worker: the list load_data returned (data, in the readers)
    store_before,       \* per worker: the store as save_data found it
    nfetch,             \* successful upstream price fetches so far
    phase,              \* "warmup" while the store is being filled, then "open"
    nticks,             \* clock advances so far
    last_req,           \* per client: arrival time of its latest request
    admitted,           \* per client: arrival times, not yet a minute old, of the
                        \* requests rate_limit_check admitted
    burst_start,        \* per client: arrival time of the first request of its burst
    burst_n,            \* per client: requests of its burst so far
    burst_rej,          \* per client: requests of its burst answered 429
    spaced,             \* per client: how many requests it sent, while each came
                        \* more than a minute after the previous one; else NotSpaced
    key_seen,           \* the key-check outcomes of the admitted requests so far
    last_cleared,       \* how many records the latest response's clear removed,
                        \* NotCleared when the latest response was no clear
    after_clear,        \* per worker: last_cleared when its request arrived
    cleared,            \* the records that were in the store when a clear that
                        \* has answered emptied it while the other worker had
                        \* a request in progress
    fn_arg,             \* the arguments of a function called on its own
    fn_ret              \* what that call returned, NoCall before it returns

limiterVars == <<request_times, current_time, filtered>>
reqVars     == <<client, x_api_key, route, after_clear>>
ghostVars   == <<admitted, last_req, burst_start, burst_n, burst_rej, spaced, key_seen>>
storeVars   == <<crypto_data_store, data_lock, nfetch, store_before>>
frameVars   == <<result, existing_data>>
fnVars      == <<fn_arg, fn_ret>>
vars == <<now, nticks, phase, pc, status, body, limiterVars, reqVars, ghostVars,
          storeVars, frameVars, last_cleared, cleared, fnVars>>

(***************************************************************************)
(* Helpers.                                                                *)
(***************************************************************************)
\* lines 31-34: the timestamps less than one minute older than t
Fresh(list, t) == SelectSeq(list, LAMBDA x : t - x < Window)

\* a table with one list for all clients
TableKeyShared(c) == "c1"
\* line 25: the key of the rate-limit table
TableKey(c) == c

\* lines 28-29: the client's list, created empty when the client is new
Lookup(table, key) == IF key \in DOMAIN table THEN table[key] ELSE <<>>

\* an assignment that forgets the lists of the other clients
PutAlone(table, key, list) == [k \in {key} |-> list]

\* an assignment table[key] = list
Put(table, key, list) ==
    [k \in DOMAIN table \cup {key} |-> IF k = key THEN list ELSE table[k]]

\* a ceiling test that lets one request too many through
AtCeilingLate(list) == Len(list) > MAX_REQUESTS_PER_MINUTE
\* line 36: the ceiling test
AtCeiling(list) == Len(list) >= MAX_REQUESTS_PER_MINUTE

Idle(w) == pc[w] = "idle"

\* what a response reports of the store: which payload, and how many records
NoBody == [kind |-> "none", n |-> 0]
Detail == [kind |-> "detail", n |-> 0]
Payload == [kind |-> "data", n |-> 0]

\* the response leaves the worker; its locals die with the call frame
Reply(w, code, b) ==
    /\ pc' = [pc EXCEPT ![w] = "idle"]
    /\ status' = [status EXCEPT ![w] = code]
    /\ body' = [body EXCEPT ![w] = b]
    /\ current_time' = [current_time EXCEPT ![w] = NoTime]
    /\ result' = [result EXCEPT ![w] = <<>>]
    /\ existing_data' = [existing_data EXCEPT ![w] = <<>>]
    /\ last_cleared' = IF route[w] = "/data/clear" /\ code = 200
                       THEN Len(crypto_data_store) ELSE NotCleared
    /\ cleared' = IF /\ route[w] = "/data/clear" /\ code = 200
                     /\ \E v \in Workers \ {w} : pc[v] # "idle"
                  THEN cleared \cup {crypto_data_store[i] : i \in DOMAIN crypto_data_store}
                  ELSE cleared
    /\ UNCHANGED <<reqVars, fnVars>>

\* a step inside a call that leaves the worker's own locals alone
Step(w, label) ==
    /\ pc' = [pc EXCEPT ![w] = label]
    /\ UNCHANGED <<status, body, current_time, result, existing_data, reqVars,
                   last_cleared, cleared, fnVars>>
AllIdle == \A w \in Workers : Idle(w)

\* client c has sent nothing for a minute: its next request starts a burst
NewBurst(c) == last_req[c] = NoTime \/ now - last_req[c] >= Window
\* the bound on the requests of one burst
CanSend(c, max) == NewBurst(c) \/ burst_n[c] < max

Constructed ==
    /\ now = 0
    /\ nticks = 0
    /\ request_times = <<>>
    /\ pc = [w \in Workers |-> "idle"]
    /\ client = [w \in Workers |-> "c1"]
    /\ x_api_key = [w \in Workers |-> NoHeader]
    /\ route = [w \in Workers |-> "/"]
    /\ current_time = [w \in Workers |-> NoTime]
    /\ filtered = [w \in Workers |-> <<>>]
    /\ status = [w \in Workers |-> 0]
    /\ body = [w \in Workers |-> NoBody]
    /\ crypto_data_store = <<>>
    /\ data_lock = Free
    /\ result = [w \in Workers |-> <<>>]
    /\ existing_data = [w \in Workers |-> <<>>]
    /\ store_before = [w \in Workers |-> <<>>]
    /\ nfetch = 0
    /\ phase = "warmup"
    /\ admitted = [c \in Clients |-> <<>>]
    /\ last_req = [c \in Clients |-> NoTime]
    /\ burst_start = [c \in Clients |-> NoTime]
    /\ burst_n = [c \in Clients |-> 0]
    /\ burst_rej = [c \in Clients |-> 0]
    /\ spaced = [c \in Clients |-> 0]
    /\ key_seen = {}
    /\ last_cleared = NotCleared
    /\ cleared = {}
    /\ after_clear = [w \in Workers |-> NotCleared]

\* the module has been imported and no request has arrived
Init ==
    /\ Constructed
    /\ fn_arg = NoCall
    /\ fn_ret = NoCall

(***************************************************************************)
(* The clock.                                                              *)
(***************************************************************************)
Tick(d) ==
    /\ now' = now + d
    /\ nticks' = nticks + 1
    /\ admitted' = [c \in Clients |->
                       SelectSeq(admitted[c], LAMBDA x : now + d - x < 60)]
    /\ UNCHANGED <<phase, pc, status, body, limiterVars, reqVars, storeVars, frameVars,
                   last_cleared, cleared, fnVars, last_req, burst_start, burst_n, burst_rej, spaced, key_seen>>

(***************************************************************************)
(* A request arrives.                                                      *)
(***************************************************************************)
\* "/" and "/health" have no dependency: the handler runs at once
ArriveOpen(w, c, r) ==
    /\ Idle(w)
    /\ r \in OpenRoutes
    /\ pc' = [pc EXCEPT ![w] = "open"]
    /\ client' = [client EXCEPT ![w] = c]
    /\ route' = [route EXCEPT ![w] = r]
    /\ x_api_key' = [x_api_key EXCEPT ![w] = NoHeader]
    /\ status' = [status EXCEPT ![w] = 0]
    /\ body' = [body EXCEPT ![w] = NoBody]
    /\ after_clear' = [after_clear EXCEPT ![w] = last_cleared]
    /\ UNCHANGED <<now, nticks, phase, limiterVars, ghostVars, storeVars, frameVars,
                   last_cleared, cleared, fnVars>>

\* Depends(verify_api_key) calls rate_limit_check, which reads the clock
ArriveProtected(w, c, k, r) ==
    /\ Idle(w)
    /\ r \in ProtectedRoutes
    /\ pc' = [pc EXCEPT ![w] = "verify"]
    /\ client' = [client EXCEPT ![w] = c]
    /\ route' = [route EXCEPT ![w] = r]
    /\ x_api_key' = [x_api_key EXCEPT ![w] = k]
    /\ status' = [status EXCEPT ![w] = 0]
    /\ body' = [body EXCEPT ![w] = NoBody]
    /\ current_time' = [current_time EXCEPT ![w] = now]
    /\ last_req' = [last_req EXCEPT ![c] = now]
    /\ burst_start' = [burst_start EXCEPT ![c] = IF NewBurst(c) THEN now ELSE @]
    /\ burst_n' = [burst_n EXCEPT ![c] = IF NewBurst(c) THEN 1 ELSE @ + 1]
    /\ burst_rej' = [burst_rej EXCEPT ![c] = IF NewBurst(c) THEN 0 ELSE @]
    /\ spaced' = [spaced EXCEPT ![c] =
                     IF @ # NotSpaced /\ (last_req[c] = NoTime \/ now - last_req[c] > Window)
                     THEN @ + 1 ELSE NotSpaced]
    /\ after_clear' = [after_clear EXCEPT ![w] = last_cleared]
    /\ UNCHANGED <<now, nticks, phase, request_times, filtered, admitted, key_seen,
                   storeVars, frameVars, last_cleared, cleared, fnVars>>

(***************************************************************************)
(* rate_limit_check                                                        *)
(***************************************************************************)
\* line 28: if client_ip not in request_times
RlMember(w) ==
    /\ pc[w] = "verify"
    /\ Step(w, IF TableKey(client[w]) \in DOMAIN request_times
               THEN "rl_filter" ELSE "rl_init")
    /\ UNCHANGED <<now, nticks, phase, request_times, filtered, ghostVars, storeVars>>

\* line 29: request_times[client_ip] = []
RlInit(w) ==
    /\ pc[w] = "rl_init"
    /\ request_times' = Put(request_times, TableKey(client[w]), <<>>)
    /\ Step(w, "rl_filter")
    /\ UNCHANGED <<now, nticks, phase, filtered, ghostVars, storeVars>>

\* lines 31-34, right-hand side: the comprehension reads the list
RlFilter(w) ==
    /\ pc[w] = "rl_filter"
    /\ filtered' = [filtered EXCEPT ![w] =
                       Fresh(request_times[TableKey(client[w])], current_time[w])]
    /\ Step(w, "rl_assign")
    /\ UNCHANGED <<now, nticks, phase, request_times, ghostVars, storeVars>>

\* line 31, left-hand side: the new list replaces the old one
RlAssign(w) ==
    /\ pc[w] = "rl_assign"
    /\ request_times' = [request_times EXCEPT ![TableKey(client[w])] = filtered[w]]
    /\ filtered' = [filtered EXCEPT ![w] = <<>>]
    /\ Step(w, "rl_check")
    /\ UNCHANGED <<now, nticks, phase, ghostVars, storeVars>>

\* lines 36-37: at the ceiling the request is answered 429
RlCheck(w) ==
    /\ pc[w] = "rl_check"
    /\ IF AtCeiling(request_times[TableKey(client[w])])
       THEN /\ Reply(w, 429, Detail)
            /\ burst_rej' = [burst_rej EXCEPT ![client[w]] = @ + 1]
       ELSE /\ Step(w, "rl_append")
            /\ UNCHANGED burst_rej
    /\ UNCHANGED <<now, nticks, phase, request_times, filtered, storeVars,
                   admitted, last_req, burst_start, burst_n, spaced, key_seen>>

\* lines 39-40: the request is recorded and admitted
RlAppend(w) ==
    /\ pc[w] = "rl_append"
    /\ request_times' = [request_times EXCEPT ![TableKey(client[w])] =
                            Append(@, current_time[w])]
    /\ admitted' = [admitted EXCEPT ![client[w]] = Append(@, current_time[w])]
    /\ Step(w, "key_check")
    /\ UNCHANGED <<now, nticks, phase, filtered, storeVars,
                   last_req, burst_start, burst_n, burst_rej, spaced, key_seen>>

(***************************************************************************)
(* verify_api_key, after rate_limit_check returned                         *)
(***************************************************************************)
\* lines 44-46
KeyCheck(w) ==
    /\ pc[w] = "key_check"
    /\ IF x_api_key[w] # API_KEY
       THEN /\ Reply(w, 401, Detail)
            /\ key_seen' = key_seen \cup {"bad"}
       ELSE /\ Step(w, "handler")
            /\ key_seen' = key_seen \cup {"good"}
    /\ UNCHANGED <<now, nticks, phase, request_times, filtered, storeVars,
                   admitted, last_req, burst_start, burst_n, burst_rej, spaced>>

\* a gate that compares the key before it runs the limiter
VerifyKeyFirst(w) ==
    LET key  == TableKey(client[w])
        kept == Fresh(Lookup(request_times, key), current_time[w])
    IN  /\ pc[w] = "verify"
        /\ IF x_api_key[w] # API_KEY
           THEN /\ Reply(w, 401, Detail)
                /\ key_seen' = key_seen \cup {"bad"}
                /\ UNCHANGED <<request_times, admitted, burst_rej>>
           ELSE IF AtCeiling(kept)
           THEN /\ request_times' = Put(request_times, key, kept)
                /\ Reply(w, 429, Detail)
                /\ burst_rej' = [burst_rej EXCEPT ![client[w]] = @ + 1]
                /\ UNCHANGED <<key_seen, admitted>>
           ELSE /\ request_times' = Put(request_times, key, Append(kept, current_time[w]))
                /\ admitted' = [admitted EXCEPT ![client[w]] = Append(@, current_time[w])]
                /\ Step(w, "handler")
                /\ key_seen' = key_seen \cup {"good"}
                /\ UNCHANGED burst_rej
        /\ UNCHANGED <<now, nticks, phase, filtered, storeVars,
                       last_req, burst_start, burst_n, spaced>>

\* a gate that admits whatever key the request carries
VerifyAnyKey(w) ==
    LET key  == TableKey(client[w])
        kept == Fresh(Lookup(request_times, key), current_time[w])
    IN  /\ pc[w] = "verify"
        /\ IF AtCeiling(kept)
           THEN /\ request_times' = Put(request_times, key, kept)
                /\ Reply(w, 429, Detail)
                /\ burst_rej' = [burst_rej EXCEPT ![client[w]] = @ + 1]
                /\ UNCHANGED <<key_seen, admitted>>
           ELSE /\ request_times' = Put(request_times, key, Append(kept, current_time[w]))
                /\ admitted' = [admitted EXCEPT ![client[w]] = Append(@, current_time[w])]
                /\ UNCHANGED burst_rej
                /\ Step(w, "handler")
                /\ key_seen' = key_seen \cup {"good"}
        /\ UNCHANGED <<now, nticks, phase, filtered, storeVars,
                       last_req, burst_start, burst_n, spaced>>

\* a limiter that records the requests it rejects as well
VerifyRecordsRejected(w) ==
    LET key  == TableKey(client[w])
        kept == Fresh(Lookup(request_times, key), current_time[w])
    IN  /\ pc[w] = "verify"
        /\ request_times' = Put(request_times, key, Append(kept, current_time[w]))
        /\ IF AtCeiling(kept)
           THEN /\ Reply(w, 429, Detail)
                /\ burst_rej' = [burst_rej EXCEPT ![client[w]] = @ + 1]
                /\ UNCHANGED <<key_seen, admitted>>
           ELSE /\ admitted' = [admitted EXCEPT ![client[w]] = Append(@, current_time[w])]
                /\ UNCHANGED burst_rej
                /\ IF x_api_key[w] # API_KEY
                   THEN /\ Reply(w, 401, Detail)
                        /\ key_seen' = key_seen \cup {"bad"}
                   ELSE /\ Step(w, "handler")
                        /\ key_seen' = key_seen \cup {"good"}
        /\ UNCHANGED <<now, nticks, phase, filtered, storeVars,
                       last_req, burst_start, burst_n, spaced>>

(***************************************************************************)
(* verify_api_key as one step: lines 24-46 run with no other worker in     *)
(* between.  Used where requests pass the gate one at a time.              *)
(***************************************************************************)
VerifyApiKey(w) ==
    LET key  == TableKey(client[w])
        kept == Fresh(Lookup(request_times, key), current_time[w])
    IN  /\ pc[w] = "verify"
        /\ IF AtCeiling(kept)
           THEN /\ request_times' = Put(request_times, key, kept)
                /\ Reply(w, 429, Detail)
                /\ burst_rej' = [burst_rej EXCEPT ![client[w]] = @ + 1]
                /\ UNCHANGED <<key_seen, admitted>>
           ELSE /\ request_times' = Put(request_times, key, Append(kept, current_time[w]))
                /\ admitted' = [admitted EXCEPT ![client[w]] = Append(@, current_time[w])]
                /\ UNCHANGED burst_rej
                /\ IF x_api_key[w] # API_KEY
                   THEN /\ Reply(w, 401, Detail)
                        /\ key_seen' = key_seen \cup {"bad"}
                   ELSE /\ Step(w, "handler")
                        /\ key_seen' = key_seen \cup {"good"}
        /\ UNCHANGED <<now, nticks, phase, filtered, storeVars,
                       last_req, burst_start, burst_n, spaced>>

(***************************************************************************)
(* Handlers without the store                                              *)
(***************************************************************************)
\* lines 154-160: root and health_check
OpenReturn(w) ==
    /\ pc[w] = "open"
    /\ Reply(w, 200, Payload)
    /\ UNCHANGED <<now, nticks, phase, request_times, filtered, ghostVars, storeVars>>

\* lines 176-192: get_crypto_news and get_weather_data; the upstream call
\* succeeds (ok) or raises, and the handler turns the exception into a 500
FetchOnly(w, ok) ==
    /\ pc[w] = "handler"
    /\ route[w] \in {"/crypto/news", "/weather"}
    /\ Reply(w, IF ok THEN 200 ELSE 500, IF ok THEN Payload ELSE Detail)
    /\ UNCHANGED <<now, nticks, phase, request_times, filtered, ghostVars, storeVars>>

(***************************************************************************)
(* The history store                                                       *)
(***************************************************************************)
\* list[-n:] for n > 0
PySliceLast(list, n) ==
    IF n >= Len(list) THEN list ELSE SubSeq(list, Len(list) - n + 1, Len(list))

\* a truncation that keeps the first 500 records
TruncatedKeepFirst(list) ==
    IF Len(list) > StoreCap THEN SubSeq(list, 1, StoreKeep) ELSE list

\* a truncation that begins at 1000 records
TruncatedAtCap(list) ==
    IF Len(list) >= StoreCap THEN PySliceLast(list, StoreKeep) ELSE list

\* lines 55-56: a store longer than 1000 keeps its last 500 records
Truncated(list) ==
    IF Len(list) > StoreCap THEN PySliceLast(list, StoreKeep) ELSE list

\* a price record: the i-th coin of the f-th successful fetch
RecordId(f, i) == f * (PageSize + 1) + i
\* lines 76-95: the records one fetch returns
Batch(f, m) == [i \in 1..m |-> RecordId(f, i)]

\* a handler that goes on with no records when the upstream call fails
PricesScrapeGoesOn(w, m, ok) ==
    /\ pc[w] = "handler"
    /\ route[w] = "/crypto/prices"
    /\ result' = [result EXCEPT ![w] = IF ok THEN Batch(nfetch + 1, m) ELSE <<>>]
    /\ nfetch' = IF ok THEN nfetch + 1 ELSE nfetch
    /\ pc' = [pc EXCEPT ![w] = "pr_load"]
    /\ UNCHANGED <<status, body, current_time, existing_data, reqVars,
                   last_cleared, cleared, fnVars>>
    /\ UNCHANGED <<now, nticks, phase, request_times, filtered, ghostVars,
                   crypto_data_store, data_lock, store_before>>

\* line 165: scrape_crypto_prices returns m records, or raises, which the
\* handler answers with 500 (lines 173-174)
PricesScrape(w, m, ok) ==
    /\ pc[w] = "handler"
    /\ route[w] = "/crypto/prices"
    /\ IF ok
       THEN /\ result' = [result EXCEPT ![w] = Batch(nfetch + 1, m)]
            /\ nfetch' = nfetch + 1
            /\ pc' = [pc EXCEPT ![w] = "pr_load"]
            /\ UNCHANGED <<status, body, current_time, existing_data, reqVars,
                           last_cleared, cleared, fnVars>>
       ELSE /\ Reply(w, 500, Detail)
            /\ UNCHANGED nfetch
    /\ UNCHANGED <<now, nticks, phase, request_times, filtered, ghostVars,
                   crypto_data_store, data_lock, store_before>>

\* a load_data that does not wait for the lock
LoadAcquireNoWait(w) ==
    /\ \/ pc[w] = "pr_load"
       \/ pc[w] = "handler" /\ route[w] \in {"/data/history", "/data/stats"}
    /\ data_lock' = w
    /\ Step(w, "ld_copy")
    /\ UNCHANGED <<now, nticks, phase, request_times, filtered, ghostVars,
                   crypto_data_store, nfetch, store_before>>

\* line 49: load_data enters "with data_lock" (lines 167, 197, 209 call it)
LoadAcquire(w) ==
    /\ \/ pc[w] = "pr_load"
       \/ pc[w] = "handler" /\ route[w] \in {"/data/history", "/data/stats"}
    /\ data_lock = Free
    /\ data_lock' = w
    /\ Step(w, "ld_copy")
    /\ UNCHANGED <<now, nticks, phase, request_times, filtered, ghostVars,
                   crypto_data_store, nfetch, store_before>>

\* line 50: the copy is returned and the lock released
LoadCopy(w) ==
    /\ pc[w] = "ld_copy"
    /\ existing_data' = [existing_data EXCEPT ![w] = crypto_data_store]
    /\ data_lock' = Free
    /\ pc' = [pc EXCEPT ![w] =
                 CASE route[w] = "/crypto/prices" -> "pr_extend"
                   [] route[w] = "/data/history"  -> "hi_return"
                   [] OTHER                       -> "st_return"]
    /\ UNCHANGED <<status, body, current_time, result, reqVars, last_cleared, cleared, fnVars>>
    /\ UNCHANGED <<now, nticks, phase, request_times, filtered, ghostVars,
                   crypto_data_store, nfetch, store_before>>

\* an extend on a list that is the store itself, not a copy of it
PricesExtendShared(w) ==
    /\ pc[w] = "pr_extend"
    /\ existing_data' = [existing_data EXCEPT ![w] = @ \o result[w]]
    /\ crypto_data_store' = crypto_data_store \o result[w]
    /\ pc' = [pc EXCEPT ![w] = "pr_save"]
    /\ UNCHANGED <<status, body, current_time, result, reqVars, last_cleared, cleared, fnVars>>
    /\ UNCHANGED <<now, nticks, phase, request_times, filtered, ghostVars,
                   data_lock, nfetch, store_before>>

\* line 168: existing_data.extend(result), on the handler's own copy
PricesExtend(w) ==
    /\ pc[w] = "pr_extend"
    /\ existing_data' = [existing_data EXCEPT ![w] = @ \o result[w]]
    /\ pc' = [pc EXCEPT ![w] = "pr_save"]
    /\ UNCHANGED <<status, body, current_time, result, reqVars, last_cleared, cleared, fnVars>>
    /\ UNCHANGED <<now, nticks, phase, request_times, filtered, ghostVars, storeVars>>

\* line 53: save_data(existing_data) enters "with data_lock"
SaveAcquire(w) ==
    /\ pc[w] = "pr_save"
    /\ data_lock = Free
    /\ data_lock' = w
    /\ store_before' = [store_before EXCEPT ![w] = crypto_data_store]
    /\ Step(w, "sv_extend")
    /\ UNCHANGED <<now, nticks, phase, request_times, filtered, ghostVars,
                   crypto_data_store, nfetch>>

\* line 54: crypto_data_store.extend(data)
SaveExtend(w) ==
    /\ pc[w] = "sv_extend"
    /\ crypto_data_store' = crypto_data_store \o existing_data[w]
    /\ Step(w, "sv_cut")
    /\ UNCHANGED <<now, nticks, phase, request_times, filtered, ghostVars,
                   data_lock, nfetch, store_before>>

\* lines 55-56
SaveCut(w) ==
    /\ pc[w] = "sv_cut"
    /\ crypto_data_store' = Truncated(crypto_data_store)
    /\ Step(w, "sv_exit")
    /\ UNCHANGED <<now, nticks, phase, request_times, filtered, ghostVars,
                   data_lock, nfetch, store_before>>

\* the end of save_data's "with" block
SaveRelease(w) ==
    /\ pc[w] = "sv_exit"
    /\ data_lock' = Free
    /\ Step(w, "pr_return")
    /\ UNCHANGED <<now, nticks, phase, request_times, filtered, ghostVars,
                   crypto_data_store, nfetch, store_before>>

\* line 171
PricesReturn(w) ==
    /\ pc[w] = "pr_return"
    /\ Reply(w, 200, [kind |-> "data", n |-> Len(result[w])])
    /\ store_before' = [store_before EXCEPT ![w] = <<>>]
    /\ UNCHANGED <<now, nticks, phase, request_times, filtered, ghostVars,
                   crypto_data_store, data_lock, nfetch>>

\* lines 198-201: get_stored_data slices the copy to its last `limit` records
HistoryReturn(w, limit) ==
    LET data == IF limit # 0 THEN PySliceLast(existing_data[w], limit)
                ELSE existing_data[w]
    IN  /\ pc[w] = "hi_return"
        /\ Reply(w, 200, [kind |-> "stored_data", n |-> Len(data)])
        /\ UNCHANGED <<now, nticks, phase, request_times, filtered, ghostVars, storeVars>>

\* None, the value of dict.get for a missing key
None == "<None>"
\* line 218: record.get('symbol', 'UNKNOWN')
SymbolKey(record) ==
    IF "symbol" \in DOMAIN record THEN record.symbol ELSE "UNKNOWN"
\* a tally that counts every record under its first record's symbol
SymbolsTallyFirst(data, i, symbols) ==
    [k \in {SymbolKey(data[1])} |-> Len(data)]
\* lines 217-222: the loop over data[i..], which adds to the dict symbols
RECURSIVE SymbolsTally(_, _, _)
SymbolsTally(data, i, symbols) ==
    IF i > Len(data) THEN symbols
    ELSE LET symbol == SymbolKey(data[i])
         IN  SymbolsTally(data, i + 1,
                 IF symbol \in DOMAIN symbols
                 THEN [symbols EXCEPT ![symbol] = @ + 1]
                 ELSE [k \in DOMAIN symbols \cup {symbol} |->
                          IF k = symbol THEN 1 ELSE symbols[k]])
\* lines 211-231: the body get_data_statistics returns for the list data
GetDataStatistics(data) ==
    IF data = <<>>
    THEN [kind |-> "no_data", n |-> 0]
    ELSE LET symbols == SymbolsTally(data, 1, <<>>)
             last    == data[Len(data)]
         IN  [kind |-> "statistics", n |-> Len(data),
              total_records  |-> Len(data),
              unique_symbols |-> Cardinality(DOMAIN symbols),
              symbol_counts  |-> symbols,
              last_updated   |-> IF "timestamp" \in DOMAIN last
                                 THEN last.timestamp ELSE None]

\* lines 209-231: get_data_statistics answers from the copy it loaded; of
\* the body only its kind and its total_records are kept here
StatsReturn(w) ==
    /\ pc[w] = "st_return"
    /\ Reply(w, 200, IF existing_data[w] = <<>>
                     THEN [kind |-> "no_data", n |-> 0]
                     ELSE [kind |-> "statistics", n |-> Len(existing_data[w])])
    /\ UNCHANGED <<now, nticks, phase, request_times, filtered, ghostVars, storeVars>>

\* lines 238-245: get_config reads the store's length without the lock
ConfigReturn(w) ==
    /\ pc[w] = "handler"
    /\ route[w] = "/config"
    /\ Reply(w, 200, [kind |-> "config", n |-> Len(crypto_data_store)])
    /\ UNCHANGED <<now, nticks, phase, request_times, filtered, ghostVars, storeVars>>

\* line 250: clear_stored_data enters "with data_lock"
ClearAcquire(w) ==
    /\ pc[w] = "handler"
    /\ route[w] = "/data/clear"
    /\ data_lock = Free
    /\ data_lock' = w
    /\ Step(w, "cl_clear")
    /\ UNCHANGED <<now, nticks, phase, request_times, filtered, ghostVars,
                   crypto_data_store, nfetch, store_before>>

\* a clear that answers without emptying the store
ClearStoreKeeps(w) ==
    /\ pc[w] = "cl_clear"
    /\ data_lock' = Free
    /\ Reply(w, 200, [kind |-> "cleared", n |-> 0])
    /\ UNCHANGED <<now, nticks, phase, request_times, filtered, ghostVars,
                   crypto_data_store, nfetch, store_before>>

\* lines 251-252: the store is emptied, the lock released, the answer sent
ClearStore(w) ==
    /\ pc[w] = "cl_clear"
    /\ crypto_data_store' = <<>>
    /\ data_lock' = Free
    /\ Reply(w, 200, [kind |-> "cleared", n |-> 0])
    /\ UNCHANGED <<now, nticks, phase, request_times, filtered, ghostVars,
                   nfetch, store_before>>

\* rate_limit_check and the key comparison, statement by statement
GateStep(w) ==
    \/ RlMember(w)
    \/ RlInit(w)
    \/ RlFilter(w)
    \/ RlAssign(w)
    \/ RlCheck(w)
    \/ RlAppend(w)
    \/ KeyCheck(w)

HandlerStep(w) ==
    \/ OpenReturn(w)
    \/ \E ok \in BOOLEAN : FetchOnly(w, ok)

(***************************************************************************)
(* One client and one worker: the requests of the client are handled one   *)
(* after another, and the clock advances between requests.                 *)
(***************************************************************************)
GateRoutes == {"/weather"}

NextBurst ==
    \/ \E k \in Keys, r \in GateRoutes :
          CanSend("c1", MaxBurst) /\ ArriveProtected("w1", "c1", k, r)
    \/ \E r \in OpenRoutes : ArriveOpen("w1", "c1", r)
    \/ VerifyApiKey("w1")
    \/ HandlerStep("w1")
    \/ \E d \in TickSteps : AllIdle /\ nticks < MaxTicks /\ Tick(d)

SpecBurst == Init /\ [][NextBurst]_vars

(***************************************************************************)
(* One client and two workers that take the client's requests in turn,     *)
(* one request at a time: each worker shows the answer to the last request *)
(* it handled.  The requests carry no key, so that each of them ends in    *)
(* verify_api_key, with 429 or with 401.                                   *)
(***************************************************************************)
NextBlock ==
    \/ \E w \in Workers, r \in GateRoutes :
          AllIdle /\ CanSend("c1", MaxBurst) /\ ArriveProtected(w, "c1", NoHeader, r)
    \/ \E w \in Workers : VerifyApiKey(w)
    \/ \E d \in TickSteps : AllIdle /\ nticks < MaxTicks /\ Tick(d)

SpecBlock == Init /\ [][NextBlock]_vars

(***************************************************************************)
(* Two clients and one worker: c1 may send a burst, c2 a few requests.     *)
(***************************************************************************)
NextClients ==
    \/ \E k \in Keys, r \in GateRoutes :
          CanSend("c1", MaxBurst) /\ ArriveProtected("w1", "c1", k, r)
    \/ \E k \in Keys, r \in GateRoutes :
          CanSend("c2", MaxOther) /\ ArriveProtected("w1", "c2", k, r)
    \/ VerifyApiKey("w1")
    \/ \E ok \in BOOLEAN : FetchOnly("w1", ok)
    \/ \E d \in GapSteps : AllIdle /\ nticks < MaxTicks /\ Tick(d)

SpecClients == Init /\ [][NextClients]_vars

(***************************************************************************)
(* One client and two workers: rate_limit_check and the key comparison     *)
(* run statement by statement, and the two workers interleave freely.      *)
(***************************************************************************)
NextRace ==
    \/ \E w \in Workers, k \in Keys, r \in GateRoutes :
          CanSend("c1", MaxRace) /\ ArriveProtected(w, "c1", k, r)
    \/ \E w \in Workers : GateStep(w)
    \/ \E w \in Workers, ok \in BOOLEAN : FetchOnly(w, ok)

SpecRace == Init /\ [][NextRace]_vars

\* the handlers that read or write the history store, statement by statement
StoreStep(w) ==
    \/ LoadAcquire(w)
    \/ LoadCopy(w)
    \/ PricesExtend(w)
    \/ SaveAcquire(w)
    \/ SaveExtend(w)
    \/ SaveCut(w)
    \/ SaveRelease(w)
    \/ PricesReturn(w)
    \/ \E limit \in HistoryLimits : HistoryReturn(w, limit)
    \/ StatsReturn(w)
    \/ ConfigReturn(w)
    \/ ClearAcquire(w)
    \/ ClearStore(w)

(***************************************************************************)
(* One client and one worker on every route: requests are handled one      *)
(* after another, within one minute.                                       *)
(***************************************************************************)
NextAuth ==
    \/ \E k \in Keys, r \in ProtectedRoutes :
          /\ CanSend("c1", MaxBurst)
          /\ r = "/crypto/prices" => nfetch < MaxFetch
          /\ ArriveProtected("w1", "c1", k, r)
    \/ \E r \in OpenRoutes : ArriveOpen("w1", "c1", r)
    \/ VerifyApiKey("w1")
    \/ HandlerStep("w1")
    \/ \E m \in FetchSizes, ok \in BOOLEAN : PricesScrape("w1", m, ok)
    \/ StoreStep("w1")

SpecAuth == Init /\ [][NextAuth]_vars

(***************************************************************************)
(* Two workers on the routes of the history store.  While phase is         *)
(* "warmup" one client fetches a full page of prices at a time, a little   *)
(* more than a minute apart, which fills the store; from any point         *)
(* between two such requests the phase may become "open", and then both    *)
(* workers handle a few requests of the client that interleave freely.     *)
(* The limiter and the key comparison run as one step here: they read and  *)
(* write neither the store nor its lock.                                   *)
(***************************************************************************)
OpenUp ==
    /\ phase = "warmup"
    /\ phase' = "open"
    /\ UNCHANGED <<now, nticks, pc, status, body, limiterVars, reqVars,
                   ghostVars, storeVars, frameVars, last_cleared, cleared, fnVars>>

NextStore ==
    \/ /\ phase = "warmup" /\ nticks = nfetch /\ nfetch < MaxGrown
       /\ ArriveProtected("w1", "c1", API_KEY, "/crypto/prices")
    \/ phase = "warmup" /\ AllIdle /\ nticks < nfetch /\ Tick(Window + 1)
    \/ AllIdle /\ nticks = nfetch /\ OpenUp
    \/ \E w \in Workers, r \in StoreRoutes :
          /\ phase = "open"
          /\ Idle(w)
          /\ CanSend("c1", MaxStoreReqs)
          /\ ArriveProtected(w, "c1", API_KEY, r)
    \/ \E w \in Workers : VerifyApiKey(w)
    \/ \E w \in Workers :
          \E m \in (IF phase = "warmup" THEN {PageSize} ELSE FetchSizes),
             ok \in (IF phase = "warmup" THEN {TRUE} ELSE BOOLEAN) :
                PricesScrape(w, m, ok)
    \/ \E w \in Workers : StoreStep(w)

SpecStore == Init /\ [][NextStore]_vars

(***************************************************************************)
(* get_data_statistics called on its own, on any short list of records,    *)
(* with or without a symbol and a timestamp.                               *)
(***************************************************************************)
StatRecords ==
    [symbol : {"BTC", "ETH"}, timestamp : {1, 2}]
        \cup [symbol : {"BTC", "UNKNOWN"}] \cup [timestamp : {1, 2}]
\* the lists of at most n elements of the set S
SeqsUpTo(S, n) == UNION {[1..k -> S] : k \in 0..n}

InitStats ==
    /\ Constructed
    /\ fn_arg \in [fn : {"get_data_statistics"}, data : SeqsUpTo(StatRecords, MaxData)]
    /\ fn_ret = NoCall

CallStatistics ==
    /\ fn_arg.fn = "get_data_statistics"
    /\ fn_ret = NoCall
    /\ fn_ret' = GetDataStatistics(fn_arg.data)
    /\ UNCHANGED <<now, nticks, phase, pc, status, body, limiterVars, reqVars,
                   ghostVars, storeVars, frameVars, last_cleared, cleared, fn_arg>>

SpecStats == InitStats /\ [][CallStatistics]_vars

(***************************************************************************)
(* scrape_crypto_prices from the upstream answer on, called on its own.    *)
(* A Python string is the sequence of its characters; the characters are   *)
(* two letters in both cases, the blank and the comma.                     *)
(***************************************************************************)
Chars == {"a", "b", "B", " ", ","}
\* the tickers of upstream coins
UpstreamTickers == {<<"a">>, <<"A">>, <<"b">>, <<"a", "b">>}
\* Optional[str]: the query parameter is absent, or it is a string
Absent == [absent |-> TRUE, text |-> <<>>]
Given(text) == [absent |-> FALSE, text |-> text]

UpperChar(c) == CASE c = "a" -> "A" [] c = "b" -> "B" [] OTHER -> c
\* str.upper()
Upper(str) == [i \in DOMAIN str |-> UpperChar(str[i])]
\* a strip that removes nothing
StripNothing(str) == str
\* str.strip() without argument removes whitespace at both ends
RECURSIVE Strip(_)
Strip(str) ==
    IF str = <<>> THEN str
    ELSE IF Head(str) = " " THEN Strip(Tail(str))
    ELSE IF str[Len(str)] = " " THEN Strip(SubSeq(str, 1, Len(str) - 1))
    ELSE str
\* str.split(","): the pieces between the commas, empty pieces included;
\* piece is the piece being read
RECURSIVE Split(_, _)
Split(str, piece) ==
    IF str = <<>> THEN <<piece>>
    ELSE IF Head(str) = "," THEN <<piece>> \o Split(Tail(str), <<>>)
    ELSE Split(Tail(str), Append(piece, Head(str)))

\* line 81: [s.upper().strip() for s in symbol_list]
Wanted(symbol_list) == {Strip(Upper(symbol_list[i])) : i \in DOMAIN symbol_list}

\* lines 76-95: the loop over the upstream coins data[i..]
RECURSIVE ScrapeLoop(_, _, _, _)
ScrapeLoop(data, i, filtering, symbol_list) ==
    IF i > Len(data) THEN <<>>
    ELSE IF filtering /\ Upper(data[i].symbol) \notin Wanted(symbol_list)
         THEN ScrapeLoop(data, i + 1, filtering, symbol_list)
         ELSE <<[symbol |-> Upper(data[i].symbol), name |-> data[i].name]>>
                  \o ScrapeLoop(data, i + 1, filtering, symbol_list)

\* lines 75-95: scrape_crypto_prices once the upstream has answered data
ScrapeCryptoPrices(symbols, data) ==
    LET filtering   == ~symbols.absent /\ symbols.text # <<>>
        symbol_list == IF filtering THEN Split(symbols.text, <<>>) ELSE <<>>
    IN  ScrapeLoop(data, 1, filtering, symbol_list)

\* an upstream page: the coins in market-cap order, each with its ticker
Page(tickers) == [i \in DOMAIN tickers |-> [symbol |-> tickers[i], name |-> i]]

InitFilter ==
    /\ Constructed
    /\ fn_arg \in [fn : {"scrape_crypto_prices"},
                   symbols : {Absent} \cup {Given(t) : t \in SeqsUpTo(Chars, MaxText)},
                   data : {Page(t) : t \in SeqsUpTo(UpstreamTickers, MaxCoins)}]
    /\ fn_ret = NoCall

CallScrapePrices ==
    /\ fn_arg.fn = "scrape_crypto_prices"
    /\ fn_ret = NoCall
    /\ fn_ret' = [fn |-> "scrape_crypto_prices",
                  result |-> ScrapeCryptoPrices(fn_arg.symbols, fn_arg.data)]
    /\ UNCHANGED <<now, nticks, phase, pc, status, body, limiterVars, reqVars,
                   ghostVars, storeVars, frameVars, last_cleared, cleared, fn_arg>>

SpecFilter == InitFilter /\ [][CallScrapePrices]_vars

(***************************************************************************)
(* scrape_crypto_news from the parsed feed on, called on its own.  An item *)
(* of the feed has or lacks each of its four child elements; its contents  *)
(* are named after its place in the feed.                                  *)
(***************************************************************************)
ItemShapes ==
    [title : BOOLEAN, link : BOOLEAN, pubDate : BOOLEAN,
     description : {"absent", "short", "long"}]
\* the feed whose i-th item has the i-th shape
Feed(shapes) == [i \in DOMAIN shapes |-> [place |-> i, shape |-> shapes[i]]]
\* list[:limit]
PySliceFirst(list, limit) ==
    IF limit >= 0
    THEN SubSeq(list, 1, IF limit < Len(list) THEN limit ELSE Len(list))
    ELSE SubSeq(list, 1, IF Len(list) + limit > 0 THEN Len(list) + limit ELSE 0)

\* the outcome of a try block that raised
Raised == [raised |-> TRUE]
\* a parse that also fails on a missing description
ParseItemStrict(item) ==
    IF ~item.shape.title \/ ~item.shape.link \/ ~item.shape.pubDate
          \/ item.shape.description = "absent"
    THEN Raised
    ELSE [raised |-> FALSE, title |-> item.place, url |-> item.place,
          source |-> "CoinDesk", published_at |-> item.place,
          summary |-> IF item.shape.description = "long" THEN "first 200..."
                      ELSE "all"]
\* lines 112-124: item.find(...) is None for a missing element, and .text
\* of None raises; description alone is tested before its .text is read
ParseItem(item) ==
    IF ~item.shape.title \/ ~item.shape.link \/ ~item.shape.pubDate
    THEN Raised
    ELSE [raised |-> FALSE, title |-> item.place, url |-> item.place,
          source |-> "CoinDesk", published_at |-> item.place,
          summary |-> CASE item.shape.description = "absent" -> "No description"
                        [] item.shape.description = "long"   -> "first 200..."
                        [] OTHER                             -> "all"]

\* lines 109-127: the loop over items[i..]; an item whose try block raised
\* is passed over
RECURSIVE NewsLoop(_, _)
NewsLoop(items, i) ==
    IF i > Len(items) THEN <<>>
    ELSE LET news_item == ParseItem(items[i])
         IN  IF news_item.raised THEN NewsLoop(items, i + 1)
             ELSE <<news_item>> \o NewsLoop(items, i + 1)

\* lines 106-129: scrape_crypto_news once the feed has been fetched
ScrapeCryptoNews(feed, limit) == NewsLoop(PySliceFirst(feed, limit), 1)

NewsLimits == (0 - 1)..(MaxFeed + 1)

InitNews ==
    /\ Constructed
    /\ fn_arg \in [fn : {"scrape_crypto_news"},
                   feed : {Feed(sh) : sh \in SeqsUpTo(ItemShapes, MaxFeed)},
                   limit : NewsLimits]
    /\ fn_ret = NoCall

CallScrapeNews ==
    /\ fn_arg.fn = "scrape_crypto_news"
    /\ fn_ret = NoCall
    /\ fn_ret' = [fn |-> "scrape_crypto_news",
                  news_data |-> ScrapeCryptoNews(fn_arg.feed, fn_arg.limit)]
    /\ UNCHANGED <<now, nticks, phase, pc, status, body, limiterVars, reqVars,
                   ghostVars, storeVars, frameVars, last_cleared, cleared, fn_arg>>

SpecNews == InitNews /\ [][CallScrapeNews]_vars

(***************************************************************************)
(* Properties of the rate limiter and the gate.                            *)
(***************************************************************************)
Count(list, t) == Len(SelectSeq(list, LAMBDA x : x = t))
Range(list) == {list[i] : i \in DOMAIN list}

NoVerdictPending == \A w \in Workers : pc[w] # "verify"

\* C1: when all requests of a client's burst arrived less than 60 seconds
\* after its first, and were handled one after another, the first 60 of
\* them were admitted and every later one (the 61st) was answered 429,
\* whatever the key check made of the admitted ones.
C1_CeilingOfSixty ==
    \A c \in Clients :
        (NoVerdictPending /\ burst_n[c] > 0 /\ last_req[c] - burst_start[c] < 60)
        => burst_rej[c] = (IF burst_n[c] > 60 THEN burst_n[c] - 60 ELSE 0)

\* the 61st request of a burst that began 59 seconds earlier is answered
\* 429, after admitted requests that passed and that failed the key check
C1_Witness ==
    /\ Idle("w1") /\ client["w1"] = "c1" /\ status["w1"] = 429
    /\ burst_n["c1"] = 61 /\ burst_rej["c1"] = 1
    /\ burst_start["c1"] = 0 /\ last_req["c1"] = 59
    /\ key_seen = {"good", "bad"}

C6_NoLostUpdate ==
    \A c \in Clients :
        /\ Len(admitted[c]) <= 60
        /\ \A t \in Range(admitted[c]) :
               Count(admitted[c], t) <= Count(Lookup(request_times, c), t)

\* the timestamps of the client's table entry that are less than 60 seconds
\* older than t
Recent(c, t) == SelectSeq(Lookup(request_times, c), LAMBDA x : t - x < 60)

\* C4: whenever verify_api_key gives its verdict on a request, with no other
\* request in between: if the client already has 60 timestamps younger than
\* 60 seconds the answer is 429 whatever the key, and nothing is recorded;
\* otherwise the request's timestamp is recorded behind them, and the
\* answer is 401 unless the key is exactly the configured one, in which case
\* the handler runs.
C4_LimiterBeforeKey ==
    [][\A w \in Workers :
          (pc[w] = "verify" /\ pc'[w] # "verify") =>
              LET recent == Recent(client[w], current_time[w])
                  after  == Lookup(request_times', client[w])
              IN  IF Len(recent) >= 60
                  THEN /\ pc'[w] = "idle" /\ status'[w] = 429
                       /\ after = recent
                  ELSE /\ after = Append(recent, current_time[w])
                       /\ IF x_api_key[w] = API_KEY
                          THEN pc'[w] = "handler"
                          ELSE pc'[w] = "idle" /\ status'[w] = 401
      ]_vars

\* a request without a key is answered 429 because of 60 earlier requests
\* of the client that were all answered 401
C4_Witness ==
    /\ Idle("w1") /\ status["w1"] = 429 /\ x_api_key["w1"] = NoHeader
    /\ key_seen = {"bad"}
    /\ Len(Lookup(request_times, "c1")) = 60
    /\ burst_n["c1"] = 61 /\ burst_rej["c1"] = 1

\* the worker is inside verify_api_key
InGate(w) == pc[w] \in {"verify", "rl_init", "rl_filter", "rl_assign",
                        "rl_check", "rl_append", "key_check"}
\* the worker is inside the handler body of a protected route
InBody(w) == pc[w] # "idle" /\ pc[w] # "open" /\ ~InGate(w)

\* C5: a worker is inside the handler body of a protected route only for a
\* request that carried exactly the configured key and that the limiter
\* admitted; the store changes and the upstream is fetched only in a step
\* of such a body, so the steps of a request answered 429 or 401 leave the
\* store as it is; a request to / or /health is answered 200 and no step of
\* it changes the rate-limit table.
C5_BodyOnlyWhenAuthorized ==
    [][/\ \A w \in Workers :
             InBody(w)' =>
                 /\ x_api_key'[w] = API_KEY
                 /\ route'[w] \in ProtectedRoutes
                 /\ Count(admitted'[client'[w]], current_time'[w]) > 0
       /\ (crypto_data_store' # crypto_data_store \/ nfetch' # nfetch) =>
             \E w \in Workers :
                 /\ InBody(w) /\ pc'[w] # pc[w]
                 /\ x_api_key[w] = API_KEY
                 /\ route[w] \in {"/crypto/prices", "/data/clear"}
       /\ \A w \in Workers :
             (InGate(w) /\ status'[w] \in {401, 429}) =>
                 /\ crypto_data_store' = crypto_data_store
                 /\ nfetch' = nfetch
                 /\ pc'[w] = "idle"
       /\ \A w \in Workers :
             /\ (pc[w] = "idle" /\ pc'[w] = "open") =>
                    request_times' = request_times
             /\ pc[w] = "open" =>
                    /\ request_times' = request_times
                    /\ pc'[w] = "idle" /\ status'[w] = 200
      ]_vars

\* a /data/clear request with the right key was answered 429 after requests
\* with right and wrong keys, and the store still holds fetched records
C5_Witness ==
    /\ Idle("w1") /\ status["w1"] = 429 /\ route["w1"] = "/data/clear"
    /\ x_api_key["w1"] = API_KEY
    /\ crypto_data_store # <<>>
    /\ key_seen = {"good", "bad"}

(***************************************************************************)
(* Properties of the history store.                                        *)
(***************************************************************************)
InLoad == {"ld_copy"}
InSave == {"sv_extend", "sv_cut", "sv_exit"}
InClear == {"cl_clear"}
InSection == InLoad \cup InSave \cup InClear
\* the worker has just taken its copy of the store with load_data
JustLoaded(w) == pc[w] \in {"pr_extend", "hi_return", "st_return"}

\* C2: when a /crypto/prices request that ran alone is about to answer 200,
\* and the N records the store held when its save began plus the M records
\* it fetched are at most 1000, the store is those N records followed by the
\* M fetched records.
C2_PricesAppend ==
    \A w \in Workers :
        (pc[w] = "pr_return"
            /\ Len(store_before[w]) + Len(result[w]) <= StoreCap)
        => crypto_data_store = store_before[w] \o result[w]

\* C3: no handler observes a store longer than 1000: neither the copy that
\* load_data has just returned nor the length /config has reported.
C3_ObservedWithinCap ==
    \A w \in Workers :
        /\ JustLoaded(w) => Len(existing_data[w]) <= StoreCap
        /\ (Idle(w) /\ body[w].kind = "config") => body[w].n <= StoreCap

\* C7: at most one worker is inside load_data, save_data or the clear, and
\* it holds the lock; no load_data is inside while a save_data is between
\* its extend and its truncation; a save_data that has extended finds the
\* store to be what it found on entry followed by its batch; and when two
\* price requests that fetched records prepared their batches before
\* either saved (so neither batch holds the other's fetched records), and the
\* second save has entered on what the first left, with all of it within
\* 1000 records, the store is the first's entry store, then the first's
\* batch, then the second's batch.
C7_MutualExclusion ==
    /\ \A a, b \in Workers :
          (pc[a] \in InSection /\ pc[b] \in InSection) => a = b
    /\ \A w \in Workers : pc[w] \in InSection <=> data_lock = w
    /\ \A a, b \in Workers : pc[a] \in InLoad => pc[b] # "sv_cut"
    /\ \A w \in Workers :
          pc[w] = "sv_cut"
          => crypto_data_store = store_before[w] \o existing_data[w]
    /\ \A a, b \in Workers :
          (/\ a # b
           /\ pc[a] = "pr_return"
           /\ pc[b] \in {"sv_exit", "pr_return"}
           /\ result[a] # <<>> /\ result[b] # <<>>
           /\ store_before[b] = store_before[a] \o existing_data[a]
           /\ Range(result[a]) \cap Range(existing_data[b]) = {}
           /\ Len(store_before[b]) + Len(existing_data[b]) <= StoreCap)
          => crypto_data_store
                 = (store_before[a] \o existing_data[a]) \o existing_data[b]

\* two price requests overlapped: each loaded before the other saved, the
\* second has saved its own batch behind the first's
C7_Witness ==
    /\ pc["w1"] = "pr_return" /\ pc["w2"] = "sv_exit"
    /\ result["w1"] # <<>> /\ result["w2"] # <<>>
    /\ store_before["w1"] # <<>>
    /\ store_before["w2"] = store_before["w1"] \o existing_data["w1"]
    /\ Range(result["w1"]) \cap Range(existing_data["w2"]) = {}
    /\ crypto_data_store
           = (store_before["w1"] \o existing_data["w1"]) \o existing_data["w2"]

\* C8: when save_data has done its work on a store of N records with a
\* batch of M, the store is the last 500 records of the N followed by the
\* M, 500 long, if N+M > 1000, and the N followed by the M otherwise.
C8_SaveTruncates ==
    \A w \in Workers :
        pc[w] = "sv_exit" =>
            LET all == store_before[w] \o existing_data[w]
            IN  IF Len(all) > 1000
                THEN /\ Len(crypto_data_store) = 500
                     /\ \A i \in 1..500 :
                            crypto_data_store[i] = all[Len(all) - 500 + i]
                ELSE crypto_data_store = all

\* a store of 630 records took a batch of 640 and kept the last 500 of the
\* 1270, which drops the first 140 records of the batch itself
C8_Witness ==
    /\ pc["w1"] = "sv_exit"
    /\ Len(store_before["w1"]) = 630 /\ Len(existing_data["w1"]) = 640
    /\ Len(crypto_data_store) = 500
    /\ crypto_data_store[1] = existing_data["w1"][141]

\* C9 as stated: when save_data has done its work on a store of N <= 500
\* records with a batch of M, the store has N+M records.
C9_NoTruncationUpTo500 ==
    \A w \in Workers :
        (pc[w] = "sv_exit" /\ Len(store_before[w]) <= 500)
        => Len(crypto_data_store) = Len(store_before[w]) + Len(existing_data[w])

\* C9, for batches that fit: when save_data has done its work on a store of
\* N <= 500 records with a batch of M and N+M <= 1000, the store is the N
\* records followed by the M, N+M long.
C9_NoTruncationWithinCap ==
    \A w \in Workers :
        (/\ pc[w] = "sv_exit"
         /\ Len(store_before[w]) <= 500
         /\ Len(store_before[w]) + Len(existing_data[w]) <= 1000)
        => /\ Len(crypto_data_store)
                  = Len(store_before[w]) + Len(existing_data[w])
           /\ crypto_data_store = store_before[w] \o existing_data[w]

\* a store of 500 records took a batch of 500 and holds exactly 1000
C9_Witness ==
    \E w \in Workers :
        /\ pc[w] = "sv_exit"
        /\ Len(store_before[w]) = 500 /\ Len(existing_data[w]) = 500
        /\ Len(crypto_data_store) = 1000


(***************************************************************************)
(* Properties of the requests that follow one another.                     *)
(***************************************************************************)
\* C11: with requests handled one after another, a /data/stats request that
\* arrived when the latest response was that of a completed /data/clear,
\* and that passed the limiter and the key comparison, is answered 200 with
\* the "No data available" message and no statistics, whatever number of
\* records the clear removed.
C11_StatsAfterClear ==
    \A w \in Workers :
        (/\ Idle(w) /\ route[w] = "/data/stats"
         /\ after_clear[w] # NotCleared
         /\ status[w] \notin {401, 429})
        => status[w] = 200 /\ body[w].kind = "no_data"

\* the clear removed records, and the stats request after it found none
C11_Witness ==
    /\ Idle("w1") /\ route["w1"] = "/data/stats" /\ status["w1"] = 200
    /\ after_clear["w1"] > 0
    /\ body["w1"].kind = "no_data"

(***************************************************************************)
(* Properties of the functions called on their own.                        *)
(***************************************************************************)
RECURSIVE SumOver(_, _)
\* the sum of f[k] over the keys k in S
SumOver(f, S) ==
    IF S = {} THEN 0
    ELSE LET k == CHOOSE x \in S : TRUE IN f[k] + SumOver(f, S \ {k})

\* the symbol a record is counted under
CountedAs(record) ==
    IF "symbol" \in DOMAIN record THEN record.symbol ELSE "UNKNOWN"

\* C12: what get_data_statistics returns for a list of records: for the
\* empty list the message alone; otherwise total_records is the length,
\* symbol_counts has exactly the symbols that occur ('UNKNOWN' for a record
\* without the field) each with its number of occurrences, the counts sum
\* to total_records, unique_symbols is the number of keys, and last_updated
\* is the timestamp of the last record.
C12_Statistics ==
    (fn_arg.fn = "get_data_statistics" /\ fn_ret # NoCall) =>
        LET data == fn_arg.data
            keys == {CountedAs(data[i]) : i \in DOMAIN data}
        IN  IF data = <<>>
            THEN fn_ret.kind = "no_data" /\ "total_records" \notin DOMAIN fn_ret
            ELSE /\ fn_ret.kind = "statistics"
                 /\ fn_ret.total_records = Len(data)
                 /\ DOMAIN fn_ret.symbol_counts = keys
                 /\ \A k \in keys :
                        fn_ret.symbol_counts[k]
                            = Cardinality({i \in DOMAIN data : CountedAs(data[i]) = k})
                 /\ SumOver(fn_ret.symbol_counts, keys) = fn_ret.total_records
                 /\ fn_ret.unique_symbols = Cardinality(keys)
                 /\ "timestamp" \in DOMAIN data[Len(data)] =>
                        fn_ret.last_updated = data[Len(data)].timestamp

\* three records, one of them without a symbol, two with the same symbol
C12_Witness ==
    /\ fn_arg.fn = "get_data_statistics" /\ fn_ret # NoCall
    /\ Len(fn_arg.data) = 3
    /\ "symbol" \notin DOMAIN fn_arg.data[1]
    /\ fn_ret.kind = "statistics"
    /\ fn_ret.unique_symbols = 2
    /\ DOMAIN fn_ret.symbol_counts = {"UNKNOWN", "BTC"}
    /\ fn_ret.symbol_counts["BTC"] = 2
    /\ "timestamp" \in DOMAIN fn_arg.data[3]
    /\ fn_ret.last_updated = 2

(***************************************************************************)
(* Properties of the upstream calls.                                       *)
(***************************************************************************)
\* C13: when the upstream call of a /crypto/prices request fails, the same
\* step answers 500: there is no second call, the store and the lock are
\* left as they were, and the rate-limit table keeps the request's
\* timestamp.
C13_UpstreamFailure ==
    [][\A w \in Workers :
          (/\ pc[w] = "handler" /\ route[w] = "/crypto/prices"
           /\ pc'[w] # "handler" /\ nfetch' = nfetch)
          => /\ pc'[w] = "idle" /\ status'[w] = 500
             /\ body'[w].kind = "detail"
             /\ crypto_data_store' = crypto_data_store
             /\ data_lock' = data_lock
             /\ request_times' = request_times
             /\ Count(Lookup(request_times', client[w]), current_time[w]) > 0
      ]_vars

\* a price request was answered 500 on a store that holds records, and its
\* timestamp is the latest of the client's window
C13_Witness ==
    /\ Idle("w1") /\ route["w1"] = "/crypto/prices" /\ status["w1"] = 500
    /\ crypto_data_store # <<>>
    /\ Len(Lookup(request_times, "c1")) = burst_n["c1"]
    /\ burst_n["c1"] > 1

\* the filter entries of a text: each stretch between two commas (or an end
\* of the text), without the blanks around it, in upper case
EntriesOf(text) ==
    LET n == Len(text)
        IsCut(p) == p = 0 \/ p = n + 1 \/ text[p] = ","
        Bare(seg) ==
            LET inked == {k \in DOMAIN seg : seg[k] # " "}
            IN  IF inked = {} THEN <<>>
                ELSE SubSeq(seg, CHOOSE a \in inked : \A k \in inked : a <= k,
                                 CHOOSE b \in inked : \A k \in inked : b >= k)
    IN  {Upper(Bare(SubSeq(text, p + 1, q - 1))) :
            <<p, q>> \in {pq \in (0..n) \X (1..(n + 1)) :
                            /\ pq[1] < pq[2] /\ IsCut(pq[1]) /\ IsCut(pq[2])
                            /\ \A k \in (pq[1] + 1)..(pq[2] - 1) : text[k] # ","}}

\* C14: what scrape_crypto_prices makes of an upstream page: with a filter,
\* the records of exactly the coins whose upper-cased ticker is a filter
\* entry (entries split at commas, blanks around them removed, compared in
\* upper case), in upstream order, each with its ticker upper-cased; with
\* no filter, absent or empty, a record of every coin.
C14_SymbolFilter ==
    (fn_arg.fn = "scrape_crypto_prices" /\ fn_ret # NoCall) =>
        LET data    == fn_arg.data
            text    == fn_arg.symbols.text
            nofilter == fn_arg.symbols.absent \/ text = <<>>
            kept    == SelectSeq(data, LAMBDA coin :
                           nofilter \/ Upper(coin.symbol) \in EntriesOf(text))
        IN  fn_ret.result
                = [i \in DOMAIN kept |->
                      [symbol |-> Upper(kept[i].symbol), name |-> kept[i].name]]

\* the filter " B,a" on the page (a, b) returns both coins, a before b
C14_Witness ==
    /\ fn_arg.fn = "scrape_crypto_prices" /\ fn_ret # NoCall
    /\ fn_arg.symbols = Given(<<" ", "B", ",", "a">>)
    /\ fn_arg.data = Page(<< <<"a">>, <<"b">> >>)
    /\ fn_ret.result = <<[symbol |-> <<"A">>, name |-> 1],
                         [symbol |-> <<"B">>, name |-> 2]>>

\* the item has the three elements scrape_crypto_news cannot do without
WellFormed(item) == item.shape.title /\ item.shape.link /\ item.shape.pubDate

\* C15: scrape_crypto_news always returns a list: of the items it looks at
\* (the first limit items of the feed; with a negative limit, as
\* items[:limit] has it, all but the last -limit), exactly those that have a
\* title, a link and a publication date, in feed order, and the summary of
\* one without a description is the placeholder.
C15_NewsSkipsMalformed ==
    (fn_arg.fn = "scrape_crypto_news" /\ fn_ret # NoCall) =>
        LET feed   == fn_arg.feed
            last   == IF fn_arg.limit >= 0 THEN fn_arg.limit
                      ELSE Len(feed) + fn_arg.limit
            kept   == SelectSeq(feed, LAMBDA item :
                          item.place <= last /\ WellFormed(item))
            out    == fn_ret.news_data
        IN  /\ Len(out) = Len(kept)
            /\ \A i \in DOMAIN kept :
                   /\ out[i].title = kept[i].place
                   /\ out[i].url = kept[i].place
                   /\ out[i].published_at = kept[i].place
                   /\ kept[i].shape.description = "absent"
                          <=> out[i].summary = "No description"

\* of two items within the limit the first lacks its title and is skipped,
\* the second lacks its description and is returned with the placeholder
C15_Witness ==
    /\ fn_arg.fn = "scrape_crypto_news" /\ fn_ret # NoCall
    /\ Len(fn_arg.feed) = 2 /\ fn_arg.limit = 2
    /\ ~fn_arg.feed[1].shape.title
    /\ WellFormed(fn_arg.feed[2])
    /\ fn_arg.feed[2].shape.description = "absent"
    /\ Len(fn_ret.news_data) = 1
    /\ fn_ret.news_data[1].title = 2
    /\ fn_ret.news_data[1].summary = "No description"

(***************************************************************************)
(* More properties of the rate limiter.                                    *)
(***************************************************************************)
\* C16: a verdict of the limiter on a request of one client leaves every
\* other client's entry of the table as it was, present or not, and a
\* request is answered 429 only when its own client has 60 timestamps less
\* than 60 seconds old, in a burst of more than 60 requests of its own.
C16_PerClient ==
    [][\A w \in Workers :
          (pc[w] = "verify" /\ pc'[w] # "verify") =>
              /\ \A c \in Clients \ {client[w]} :
                    /\ c \in DOMAIN request_times' <=> c \in DOMAIN request_times
                    /\ Lookup(request_times', c) = Lookup(request_times, c)
              /\ status'[w] = 429 =>
                    /\ Len(Recent(client[w], current_time[w])) >= 60
                    /\ burst_n[client[w]] > 60
      ]_vars

\* c2's second request is answered, not with 429, after c1 had a request
\* rejected; both of c2's timestamps are in its own list
C16_Witness ==
    /\ Idle("w1") /\ client["w1"] = "c2" /\ status["w1"] \in {200, 401, 500}
    /\ burst_rej["c1"] > 0
    /\ Len(Lookup(request_times, "c1")) = 60
    /\ Len(Lookup(request_times, "c2")) = 2
    /\ last_req["c2"] = last_req["c1"]

\* C17: a verdict of 429 adds nothing to the client's list: the list after
\* it is the list before it without some timestamps that are 60 seconds old
\* or older, in the same order.  The verdict is 429 exactly when 60 of the
\* client's admitted requests are less than 60 seconds old, however many
\* requests were rejected in between.
C17_RejectedNotRecorded ==
    [][\A w \in Workers :
          (pc[w] = "verify" /\ pc'[w] # "verify") =>
              LET t      == current_time[w]
                  before == Lookup(request_times, client[w])
                  after  == Lookup(request_times', client[w])
                  inWindow == SelectSeq(admitted[client[w]], LAMBDA x : t - x < 60)
              IN  /\ status'[w] = 429 =>
                        /\ after = SelectSeq(before, LAMBDA x : x \in Range(after))
                        /\ \A x \in Range(before) \ Range(after) : t - x >= 60
                        /\ Count(after, t) = Count(before, t)
                  /\ status'[w] = 429 <=> Len(inWindow) >= 60
      ]_vars

\* w1 answered 429 at second 0, when the window was full, and w2 admitted
\* the client's next request 61 seconds later: the list holds that request
\* alone
C17_Witness ==
    /\ AllIdle /\ now = 61
    /\ status["w1"] = 429
    /\ status["w2"] = 401
    /\ Lookup(request_times, "c1") = <<61>>
    /\ burst_n["c1"] = 1

\* C18: a verdict of rate_limit_check keeps of the client's list exactly the
\* timestamps that are 60 seconds old or younger, one exactly 60 seconds old
\* included, and counts them toward the ceiling: with 60 of them the answer
\* is 429 and the list is those, with fewer the request's time is appended.
C18_KeepsUpToSixtySeconds ==
    [][\A w \in Workers :
          (pc[w] = "verify" /\ pc'[w] # "verify") =>
              LET t      == current_time[w]
                  before == Lookup(request_times, client[w])
                  after  == Lookup(request_times', client[w])
                  kept   == SelectSeq(before, LAMBDA x : t - x <= 60)
              IN  IF Len(kept) >= 60
                  THEN status'[w] = 429 /\ after = kept
                  ELSE status'[w] # 429 /\ after = Append(kept, t)
      ]_vars

(***************************************************************************)
(* The clear and the requests around it.                                   *)
(***************************************************************************)
\* C19: no record that was in the store when a clear that has answered
\* emptied it is in the store again, whatever request the other worker had
\* in progress while the clear ran.
C19_ClearNotUndone ==
    \A i \in DOMAIN crypto_data_store : crypto_data_store[i] \notin cleared

\* C20: every step of a /data/history, /data/stats or /config request
\* leaves the store as it is, records and order; load_data hands its caller
\* the store's contents, and the step in which the caller extends the list
\* it was handed leaves the store as it is too.
C20_ReadersLeaveStore ==
    [][\A w \in Workers :
          /\ (/\ route[w] \in {"/data/history", "/data/stats", "/config"}
              /\ pc[w] # "idle" /\ pc'[w] # pc[w])
             => crypto_data_store' = crypto_data_store
          /\ (pc[w] = "ld_copy" /\ pc'[w] # pc[w])
             => /\ crypto_data_store' = crypto_data_store
                /\ existing_data'[w] = crypto_data_store
          /\ (pc[w] = "pr_extend" /\ pc'[w] # pc[w])
             => /\ crypto_data_store' = crypto_data_store
                /\ existing_data'[w] = existing_data[w] \o result[w]
      ]_vars

\* /data/history has answered with the last 2 of the store's records while
\* the other worker has extended its copy of the same store with the
\* records it fetched; the store is as both found it
C20_Witness ==
    /\ Idle("w1") /\ route["w1"] = "/data/history" /\ status["w1"] = 200
    /\ body["w1"].kind = "stored_data" /\ body["w1"].n = 2
    /\ pc["w2"] = "pr_save" /\ result["w2"] # <<>>
    /\ Len(crypto_data_store) >= PageSize
    /\ existing_data["w2"] = crypto_data_store \o result["w2"]

=============================================================================
